---- MODULE Spec2Model ----
(***************************************************************************)
(* A model of vine's promise (vine/promises.py) and barrier                *)
(* (vine/synchronization.py, vine/types.py).                               *)
(*                                                                         *)
(* Objects live in a heap indexed by object id.  Every method of the       *)
(* library is an operator that takes a world (the heap and the trace of    *)
(* callable invocations) and returns the world after the method, the       *)
(* exception it raised, if any, and its return value.  Methods call each   *)
(* other synchronously, so the operators are mutually recursive and one    *)
(* action of the model is one complete top-level method call.              *)
(*                                                                         *)
(* Python values are strings ("None", "1", "E1", ...); object references   *)
(* are object ids, Nil being the None reference.                           *)
(***************************************************************************)
EXTENDS Integers, Sequences, FiniteSets, TLC

VARIABLES heap,   \* object id -> object
          trace,  \* invocations of plain callables during the last operation
          last,   \* the last top-level operation, its inputs and its outcome
          att,    \* promise id -> the continuations its then calls attached
          hist    \* how the objects were built, and the operations made so far

vars == <<heap, trace, last, att, hist>>

----------------------------------------------------------------------------
(* Bounds *)

MaxWrap == 2      \* promises that then may create, promise configuration
MaxBWrap == 2     \* promises that then may create, barrier configuration
MaxAtt == 2       \* continuations attached to one promise
MaxCount == 2     \* the count up to which a barrier that is not ready is called
MaxSize == 3      \* the size a barrier may grow to

----------------------------------------------------------------------------
(* Values *)

Nil == 0
NoExc == "none"
Keys == {"k"}
Absent == "absent"
NoKw == [x \in Keys |-> Absent]

Merge(a, b) == [x \in Keys |-> IF b[x] # Absent THEN b[x] ELSE a[x]]

RECURSIVE SeqToSet(_)
SeqToSet(s) == IF s = <<>> THEN {} ELSE {Head(s)} \cup SeqToSet(Tail(s))

----------------------------------------------------------------------------
(* Objects *)

Blank ==
  [kind |-> "free", fun |-> Nil, args |-> <<>>, kwargs |-> NoKw,
   ready |-> FALSE, failed |-> FALSE, cancelled |-> FALSE,
   value |-> <<>>, reason |-> "None", sv |-> Nil, lv |-> <<>>,
   on_error |-> Nil, raises |-> NoExc, ret |-> "None",
   p |-> Nil, count |-> 0, size |-> 0, finalized |-> FALSE, cancels |-> Nil]

Fn(raises, ret) == [Blank EXCEPT !.kind = "fn", !.raises = raises, !.ret = ret]

NewPromise(fun, args, kwargs, on_error) ==
  [Blank EXCEPT !.kind = "promise", !.fun = fun, !.args = args,
                !.kwargs = kwargs, !.on_error = on_error]

IsThenable(h, o) == o # Nil /\ h[o].kind \in {"promise", "barrier"}

Ev(f, a, k) == [fn |-> f, a |-> a, k |-> k]

Ok(w) == [w |-> w, exc |-> NoExc, ret |-> "None", ref |-> Nil]
Raise(w, e) == [w |-> w, exc |-> e, ret |-> "None", ref |-> Nil]
Return(w, v) == [w |-> w, exc |-> NoExc, ret |-> v, ref |-> Nil]
ReturnRef(w, e, o) == [w |-> w, exc |-> e, ret |-> "None", ref |-> o]

FreeIds(h) == {i \in DOMAIN h : h[i].kind = "free"}
Fresh(h) == CHOOSE i \in FreeIds(h) : \A j \in FreeIds(h) : i <= j

----------------------------------------------------------------------------
(* Plain callables *)

\* Calling a plain callable records the invocation, then returns or raises.
CallFn(w, f, a, k) ==
  LET w1 == [w EXCEPT !.tr = Append(@, Ev(f, a, k))]
  IN IF w.h[f].raises # NoExc THEN Raise(w1, w.h[f].raises)
     ELSE Return(w1, w.h[f].ret)

----------------------------------------------------------------------------
(* promise and barrier methods *)
(*                                                                         *)
(* The result r of a nested call is consumed by an operator that takes it  *)
(* as a parameter: the statements that follow the call in the source.      *)

RECURSIVE Invoke(_, _, _, _), PromiseCall(_, _, _, _), Dispatch(_, _, _, _, _),
          DispatchLv(_, _, _, _), DispatchDeque(_, _, _, _, _), PromiseThrow1(_, _, _), MethThrow1(_, _, _),
          PromiseThrow(_, _, _, _, _), ThrowBody(_, _, _), ThrowLv(_, _, _),
          MethThrow(_, _, _, _, _), PromiseCancel(_, _), CancelBody(_, _),
          CancelEach(_, _), MethCancel(_, _), PromiseThen(_, _, _, _),
          MethThen(_, _, _, _), BarrierCall(_, _, _, _),
          ExtendNoincr(_, _, _), AddNoincr(_, _, _)

\* A statement whose value is not used: the exception, if any, goes on.
Discard(r) == IF r.exc # NoExc THEN Raise(r.w, r.exc) ELSE Ok(r.w)

\* try: ... finally: self._svpending = None, then return v
ClearSv(r, self, v) ==
  IF r.exc # NoExc THEN Raise([r.w EXCEPT !.h[self].sv = Nil], r.exc)
  ELSE Return([r.w EXCEPT !.h[self].sv = Nil], v)

\* try: ... finally: self._lvpending = None, then return v
ClearLv(r, self, v) ==
  IF r.exc # NoExc THEN Raise([r.w EXCEPT !.h[self].lv = <<>>], r.exc)
  ELSE Return([r.w EXCEPT !.h[self].lv = <<>>], v)

\* Calling a plain callable that cancels a promise: the invocation is
\* recorded, then the promise w.h[f].cancels is cancelled; what cancel
\* raises leaves the callable.
CallCanceller(w, f, a, k) ==
  Discard(MethCancel([w EXCEPT !.tr = Append(@, Ev(f, a, k))], w.h[f].cancels))

\* o(*a, **k) for any callable object o.
Invoke(w, o, a, k) ==
  CASE w.h[o].kind = "fn" /\ w.h[o].cancels = Nil -> CallFn(w, o, a, k)
    [] w.h[o].kind = "fn" /\ w.h[o].cancels # Nil -> CallCanceller(w, o, a, k)
    [] w.h[o].kind = "promise" -> PromiseCall(w, o, a, k)
    [] w.h[o].kind = "barrier" -> BarrierCall(w, o, a, k)

\* promise.__call__ without the except clauses: what the callable raises
\* goes to the caller as it is.
AfterFunNoExcept(r, self) ==
  IF r.exc # NoExc THEN Raise(r.w, r.exc)
  ELSE Dispatch([r.w EXCEPT !.h[self].value = <<<<r.ret>>, NoKw>>],
                self, <<r.ret>>, NoKw, r.ret)

\* promise.__call__ after self.fun(*final_args, **final_kwargs) gave r.
AfterFun(r, self) ==
  IF r.exc # NoExc THEN PromiseThrow(r.w, self, "None", TRUE, r.exc)
  ELSE Dispatch([r.w EXCEPT !.h[self].value = <<<<r.ret>>, NoKw>>],
                self, <<r.ret>>, NoKw, r.ret)

\* promise.__call__ without the test of self.cancelled.
PromiseCallUnchecked(w, self, a, k) ==
  LET o == w.h[self]
      final_args == IF a # <<>> THEN o.args \o a ELSE o.args
      final_kwargs == IF k # NoKw THEN Merge(o.kwargs, k) ELSE o.kwargs
  IN IF o.fun # Nil
       THEN AfterFun(Invoke(w, o.fun, final_args, final_kwargs), self)
       ELSE Dispatch([w EXCEPT !.h[self].value = <<final_args, final_kwargs>>],
                     self, final_args, final_kwargs, "None")

\* promise.__call__
PromiseCall(w, self, a, k) ==
  LET o == w.h[self]
      final_args == IF a # <<>> THEN o.args \o a ELSE o.args
      final_kwargs == IF k # NoKw THEN Merge(o.kwargs, k) ELSE o.kwargs
  IN IF o.cancelled THEN Ok(w)
     ELSE IF o.fun # Nil
       THEN AfterFun(Invoke(w, o.fun, final_args, final_kwargs), self)
       ELSE Dispatch([w EXCEPT !.h[self].value = <<final_args, final_kwargs>>],
                     self, final_args, final_kwargs, "None")

\* promise.__call__ from "self.ready = True" on: notify the listeners.
Dispatch(w, self, ca, ck, retval) ==
  IF w.h[self].sv # Nil
    THEN ClearSv(Invoke([w EXCEPT !.h[self].ready = TRUE], w.h[self].sv, ca, ck),
                 self, retval)
    ELSE ClearLv(DispatchLv([w EXCEPT !.h[self].ready = TRUE], self, ca, ck),
                 self, retval)

\* The next round of the while loop of promise.__call__.
DispatchNext(r, self, lvpending, ca, ck) ==
  IF r.exc # NoExc THEN r ELSE DispatchDeque(r.w, self, lvpending, ca, ck)

\* lvpending.popleft() as self sees it: self._lvpending is the deque that is
\* popped, unless a cancel of self has set the attribute to None meanwhile.
Popleft(w, self) ==
  [w EXCEPT !.h[self].lv = IF @ = <<>> THEN <<>> ELSE <<Tail(@[1])>>]

\* while lvpending: p = lvpending.popleft(); p(*ca, **ck)
\* lvpending is the local variable: the loop goes on over the deque it
\* holds whatever becomes of the attribute.
DispatchDeque(w, self, lvpending, ca, ck) ==
  IF lvpending = <<>> THEN Ok(w)
  ELSE DispatchNext(Invoke(Popleft(w, self), Head(lvpending), ca, ck),
                    self, Tail(lvpending), ca, ck)

\* lvpending = self._lvpending, then the while loop (None is skipped).
DispatchLv(w, self, ca, ck) ==
  IF w.h[self].lv = <<>> THEN Ok(w)
  ELSE DispatchDeque(w, self, w.h[self].lv[1], ca, ck)

\* promise.throw1
PromiseThrow1(w, self, exc) ==
  IF w.h[self].cancelled THEN Ok(w)
  ELSE IF w.h[self].on_error # Nil
    THEN Discard(Invoke([w EXCEPT !.h[self].failed = TRUE,
                                  !.h[self].reason = exc],
                        w.h[self].on_error, w.h[self].args \o <<exc>>,
                        w.h[self].kwargs))
    ELSE Ok([w EXCEPT !.h[self].failed = TRUE, !.h[self].reason = exc])

\* o.throw1(exc) for any object o; a plain callable has no throw1.
MethThrow1(w, o, exc) ==
  CASE w.h[o].kind = "fn" -> Raise(w, "AttributeError")
    [] OTHER -> PromiseThrow1(w, IF w.h[o].kind = "barrier" THEN w.h[o].p ELSE o,
                              exc)

\* The outer finally clause of promise.throw without the re-raise.
ThrowFinallySilent(body, self, e, propagate, cur) ==
  IF body.exc # NoExc THEN Raise(body.w, body.exc) ELSE Ok(body.w)

\* The outer finally clause of promise.throw, after the try block gave body:
\* a bare raise re-raises the exception in flight, or else the current one.
ThrowFinally(body, self, e, propagate, cur) ==
  IF body.w.h[self].on_error = Nil /\ propagate
    THEN IF e = "None" \/ e = cur
           THEN Raise(body.w, IF body.exc # NoExc THEN body.exc
                              ELSE IF cur # "None" THEN cur ELSE "RuntimeError")
           ELSE Raise(body.w, e)
    ELSE IF body.exc # NoExc THEN Raise(body.w, body.exc) ELSE Ok(body.w)

\* promise.throw without the test of self.cancelled.
PromiseThrowUnchecked(w, self, exc, propagate, cur) ==
  ThrowFinally(ThrowBody(w, self, IF exc # "None" THEN exc ELSE cur),
               self, IF exc # "None" THEN exc ELSE cur, propagate, cur)

\* promise.throw; cur is sys.exc_info()[1] at the call, tb is always None.
PromiseThrow(w, self, exc, propagate, cur) ==
  IF w.h[self].cancelled THEN Ok(w)
  ELSE ThrowFinally(ThrowBody(w, self, IF exc # "None" THEN exc ELSE cur),
                    self, IF exc # "None" THEN exc ELSE cur, propagate, cur)

\* promise.throw after self.throw1(exc) gave r: fail the listeners.
ThrowListeners(r, self, e) ==
  IF r.exc # NoExc THEN r
  ELSE IF r.w.h[self].sv # Nil
    THEN ClearSv(MethThrow1(r.w, r.w.h[self].sv, e), self, "None")
    ELSE ClearLv(ThrowLv(r.w, self, e), self, "None")

\* The try block of promise.throw with its inner finally clauses.
ThrowBody(w, self, e) == ThrowListeners(PromiseThrow1(w, self, e), self, e)

\* The next round of the while loop of promise.throw.
ThrowNext(r, self, e) == IF r.exc # NoExc THEN r ELSE ThrowLv(r.w, self, e)

\* while lvpending: lvpending.popleft().throw1(exc)
ThrowLv(w, self, e) ==
  IF w.h[self].lv = <<>> \/ w.h[self].lv[1] = <<>> THEN Ok(w)
  ELSE ThrowNext(MethThrow1([w EXCEPT !.h[self].lv = <<Tail(@[1])>>],
                            Head(w.h[self].lv[1]), e),
                 self, e)

\* o.throw(exc, propagate=propagate) for any object o.
MethThrow(w, o, exc, propagate, cur) ==
  CASE w.h[o].kind = "fn" -> Raise(w, "AttributeError")
    [] OTHER -> PromiseThrow(w, IF w.h[o].kind = "barrier" THEN w.h[o].p ELSE o,
                             exc, propagate, cur)

\* The finally clause of promise.cancel.
CancelFinally(body, self) ==
  IF body.exc # NoExc
    THEN Raise([body.w EXCEPT !.h[self].sv = Nil, !.h[self].lv = <<>>,
                              !.h[self].on_error = Nil], body.exc)
    ELSE Ok([body.w EXCEPT !.h[self].sv = Nil, !.h[self].lv = <<>>,
                           !.h[self].on_error = Nil])

\* promise.cancel
PromiseCancel(w, self) ==
  CancelFinally(CancelBody([w EXCEPT !.h[self].cancelled = TRUE], self), self)

\* if self._svpending is not None: self._svpending.cancel()
CancelSlot(w, self) ==
  IF w.h[self].sv # Nil THEN MethCancel(w, w.h[self].sv) ELSE Ok(w)

\* if self._lvpending is not None: for pending in ...: pending.cancel()
CancelQueue(r, self) ==
  IF r.exc # NoExc THEN r
  ELSE IF r.w.h[self].lv # <<>> THEN CancelEach(r.w, r.w.h[self].lv[1])
  ELSE r

\* if isinstance(self.on_error, Thenable): self.on_error.cancel()
CancelOnError(r, self) ==
  IF r.exc # NoExc THEN r
  ELSE IF IsThenable(r.w.h, r.w.h[self].on_error)
    THEN MethCancel(r.w, r.w.h[self].on_error)
    ELSE r

\* The try block of promise.cancel.
CancelBody(w, self) == CancelOnError(CancelQueue(CancelSlot(w, self), self), self)

\* The next round of the for loop of promise.cancel.
CancelRest(r, pending) == IF r.exc # NoExc THEN r ELSE CancelEach(r.w, pending)

\* for pending in self._lvpending: pending.cancel()
CancelEach(w, pending) ==
  IF pending = <<>> THEN Ok(w)
  ELSE CancelRest(MethCancel(w, Head(pending)), Tail(pending))

\* o.cancel() for any object o; a plain callable has no cancel.
MethCancel(w, o) ==
  CASE w.h[o].kind = "fn" -> Raise(w, "AttributeError")
    [] OTHER -> PromiseCancel(w, IF w.h[o].kind = "barrier" THEN w.h[o].p ELSE o)

\* Store with the new continuation put in front of the stored ones.
StoreInFront(o, p) ==
  IF o.lv = <<>>
    THEN IF o.sv # Nil
           THEN [o EXCEPT !.sv = Nil, !.lv = <<<<p, o.sv>>>>]
           ELSE [o EXCEPT !.sv = p]
    ELSE [o EXCEPT !.lv = <<<<p>> \o o.lv[1]>>]

\* The storage rule at the end of promise.then.
Store(o, p) ==
  IF o.lv = <<>>
    THEN IF o.sv # Nil
           THEN [o EXCEPT !.sv = Nil, !.lv = <<<<o.sv, p>>>>]
           ELSE [o EXCEPT !.sv = p]
    ELSE [o EXCEPT !.lv = <<Append(o.lv[1], p)>>]

\* The value a method returns is the object p, unless the call r raised.
RefOf(r, p) == ReturnRef(r.w, r.exc, IF r.exc # NoExc THEN Nil ELSE p)

\* promise.then after the outcome was replayed to p: store p and return it.
ThenStore(r, self, p) ==
  IF r.exc # NoExc THEN Raise(r.w, r.exc)
  ELSE ReturnRef([r.w EXCEPT !.h[self] = Store(r.w.h[self], p)], NoExc, p)

\* Replay that passes only the positional arguments of the stored value.
ReplayArgsOnly(w, self, p) ==
  IF w.h[self].failed THEN MethThrow(w, p, w.h[self].reason, TRUE, "None")
  ELSE IF w.h[self].ready THEN Invoke(w, p, w.h[self].value[1], NoKw)
  ELSE Ok(w)

\* promise.then: the stored outcome of self goes to the new continuation p.
Replay(w, self, p) ==
  IF w.h[self].failed THEN MethThrow(w, p, w.h[self].reason, TRUE, "None")
  ELSE IF w.h[self].ready
    THEN Invoke(w, p, w.h[self].value[1], w.h[self].value[2])
  ELSE Ok(w)

\* promise.then from "if self.cancelled" on, p being the continuation.
ThenOn(w, self, p) ==
  IF w.h[self].cancelled THEN RefOf(MethCancel(w, p), p)
  ELSE ThenStore(Replay(w, self, p), self, p)

\* promise.then: a Thenable callback is wrapped in a new promise.
PromiseThen(w, self, callback, on_error) ==
  IF IsThenable(w.h, callback)
    THEN ThenOn([w EXCEPT !.h[Fresh(w.h)] =
                            NewPromise(callback, <<>>, NoKw, on_error)],
                self, Fresh(w.h))
    ELSE ThenOn(w, self, callback)

\* o.then(callback, on_error) for a promise or a barrier (ThenableProxy.then).
MethThen(w, o, callback, on_error) ==
  CASE w.h[o].kind = "fn" -> Raise(w, "AttributeError")
    [] OTHER -> PromiseThen(w, IF w.h[o].kind = "barrier" THEN w.h[o].p ELSE o,
                            callback, on_error)

\* ThenableProxy.ready / cancelled / failed of a barrier
BReady(h, b) == h[h[b].p].ready
BCancelled(h, b) == h[h[b].p].cancelled
BFailed(h, b) == h[h[b].p].failed

\* barrier.__call__ without the test of self.finalized.
BarrierCallEager(w, self, a, k) ==
  IF ~BReady(w.h, self) /\ ~BCancelled(w.h, self)
    THEN IF w.h[self].count + 1 >= w.h[self].size
           THEN Discard(PromiseCall([w EXCEPT !.h[self].count = @ + 1,
                                              !.h[w.h[self].p].ready = TRUE],
                                    w.h[self].p, w.h[self].args,
                                    w.h[self].kwargs))
           ELSE Ok([w EXCEPT !.h[self].count = @ + 1])
    ELSE Ok(w)

\* barrier.__call__ without the test of self.ready.
BarrierCallRepeat(w, self, a, k) ==
  IF ~BCancelled(w.h, self)
    THEN IF w.h[self].finalized /\ w.h[self].count + 1 >= w.h[self].size
           THEN Discard(PromiseCall([w EXCEPT !.h[self].count = @ + 1,
                                              !.h[w.h[self].p].ready = TRUE],
                                    w.h[self].p, w.h[self].args,
                                    w.h[self].kwargs))
           ELSE Ok([w EXCEPT !.h[self].count = @ + 1])
    ELSE Ok(w)

\* barrier.__call__; the arguments of the call are discarded.
BarrierCall(w, self, a, k) ==
  IF ~BReady(w.h, self) /\ ~BCancelled(w.h, self)
    THEN IF w.h[self].finalized /\ w.h[self].count + 1 >= w.h[self].size
           THEN Discard(PromiseCall([w EXCEPT !.h[self].count = @ + 1,
                                              !.h[w.h[self].p].ready = TRUE],
                                    w.h[self].p, w.h[self].args,
                                    w.h[self].kwargs))
           ELSE Ok([w EXCEPT !.h[self].count = @ + 1])
    ELSE Ok(w)

\* self.finalized = True, unless the call of self.p raised.
SetFinalized(r, self) ==
  IF r.exc # NoExc THEN Raise(r.w, r.exc)
  ELSE Ok([r.w EXCEPT !.h[self].finalized = TRUE])

\* barrier.finalize without the test of self.finalized.
BarrierFinalizeAgain(w, self) ==
  IF w.h[self].count >= w.h[self].size
    THEN SetFinalized(PromiseCall(w, w.h[self].p, w.h[self].args,
                                  w.h[self].kwargs), self)
    ELSE SetFinalized(Ok(w), self)

\* barrier.finalize
BarrierFinalize(w, self) ==
  IF ~w.h[self].finalized /\ w.h[self].count >= w.h[self].size
    THEN SetFinalized(PromiseCall(w, w.h[self].p, w.h[self].args,
                                  w.h[self].kwargs), self)
    ELSE SetFinalized(Ok(w), self)

\* barrier.add_noincr
AddNoincr(w, self, p) ==
  IF ~BCancelled(w.h, self)
    THEN IF BReady(w.h, self) THEN Raise(w, "ValueError")
         ELSE RefOf(MethThen(w, p, self, Nil), p)
    ELSE ReturnRef(w, NoExc, p)

\* self.size += 1, unless add_noincr raised.
IncrSize(r, self) ==
  IF r.exc # NoExc THEN Raise(r.w, r.exc)
  ELSE Ok([r.w EXCEPT !.h[self].size = @ + 1])

\* barrier.add
BarrierAdd(w, self, p) ==
  IF ~BCancelled(w.h, self) THEN IncrSize(AddNoincr(w, self, p), self)
  ELSE Ok(w)

\* The rest of the list comprehension of barrier.extend_noincr.
ExtendRest(r, self, promises) ==
  IF r.exc # NoExc THEN Raise(r.w, r.exc)
  ELSE ExtendNoincr(r.w, self, promises)

\* barrier.extend_noincr
ExtendNoincr(w, self, promises) ==
  IF ~BCancelled(w.h, self) /\ promises # <<>>
    THEN ExtendRest(AddNoincr(w, self, Head(promises)), self, Tail(promises))
    ELSE Ok(w)

\* barrier.extend
BarrierExtend(w, self, promises) ==
  IF ~BCancelled(w.h, self)
    THEN ExtendNoincr([w EXCEPT !.h[self].size = @ + Len(promises)],
                      self, promises)
    ELSE Ok(w)

\* if callback is not None: self.then(callback)
ThenCallback(w, self, callback) ==
  IF callback # Nil THEN MethThen(w, self, callback, Nil).w ELSE w

\* promise.__init__
PromiseInit(w, self, fun, args, kwargs, callback, on_error) ==
  ThenCallback([w EXCEPT !.h[self] = NewPromise(fun, args, kwargs, on_error)],
               self, callback)

\* self.finalized = bool(promises or self.size)
InitFinalized(r, self, promises) ==
  [r.w EXCEPT !.h[self].finalized = (promises # <<>> \/ r.w.h[self].size # 0)]

\* barrier.__init__; bp is the slot of the internal promise, size = 0 is None.
BarrierInit(w, self, bp, promises, args, kwargs, callback, size) ==
  ThenCallback(
    InitFinalized(
      ExtendNoincr(
        [w EXCEPT !.h[bp] = NewPromise(Nil, <<>>, NoKw, Nil),
                  !.h[self] = [Blank EXCEPT
                                 !.kind = "barrier", !.p = bp, !.args = args,
                                 !.kwargs = kwargs,
                                 !.size = IF size = 0 THEN Len(promises)
                                          ELSE size]],
        self, promises),
      self, promises),
    self, callback)

----------------------------------------------------------------------------
(* The objects of the model *)

F == 1     \* a plain callable that returns "r"
G == 2     \* a plain callable that returns None
H == 3     \* a plain callable used as error handler
FR == 4    \* a plain callable that raises "EF"
P1 == 5    \* a promise
P2 == 6    \* a promise
B == 7     \* a barrier (barrier configuration)
BP == 8    \* its internal promise
X == P2 + MaxWrap + 1   \* a plain callable that cancels P1 (reentrant configuration)

Fns == {F, G, H, FR}

FnHeap(n) ==
  [i \in 1..n |-> CASE i \in {F, H} -> Fn(NoExc, "r")
                    [] i = G -> Fn(NoExc, "None")
                    [] i = FR -> Fn("EF", "None")
                    [] OTHER -> Blank]

\* The heap of the reentrant configuration: the callables, P1, P2, the
\* slots for the promises that then creates, and X.
XHeap ==
  [FnHeap(X) EXCEPT ![X] = [Fn(NoExc, "None") EXCEPT !.cancels = P1]]

World(h) == [h |-> h, tr |-> <<>>]

K3 == [x \in Keys |-> "3"]
CallIn == {<<<<>>, NoKw>>, <<<<"1">>, NoKw>>, <<<<"2">>, K3>>}
ThrowIn == {<<"E1", TRUE>>, <<"E2", TRUE>>, <<"E1", FALSE>>}
ExcSet == {"E1", "E2"}

\* The objects a successor of o in the object graph refers to.
Succ(h, o) ==
  ({h[o].fun, h[o].sv, h[o].on_error, h[o].p}
     \cup (IF h[o].lv = <<>> THEN {} ELSE SeqToSet(h[o].lv[1]))) \ {Nil}

RECURSIVE Reach(_, _)
Reach(h, S) ==
  LET T == S \cup UNION {Succ(h, o) : o \in S}
  IN IF T = S THEN S ELSE Reach(h, T)


----------------------------------------------------------------------------
(* Actions: one complete top-level call each *)

W0 == World(heap)

\* The promise behind o: o itself, or the internal promise of a barrier.
Promise(h, o) == IF h[o].kind = "barrier" THEN h[o].p ELSE o

\* The operations that only fulfil promises and attach continuations; a call
\* of a barrier that is already ready counts as one as well (see Commit).
QuietOps == {<<"promise", "call">>, <<"promise", "then">>, <<"barrier", "then">>}

Commit(r, op, o, a, k, cb, oe, e, prop, ps) ==
  /\ heap' = r.w.h
  /\ trace' = r.w.tr
  /\ last' = [op |-> op, target |-> o, a |-> a, k |-> k, cb |-> cb, oe |-> oe,
              e |-> e, prop |-> prop, ps |-> ps, exc |-> r.exc, ret |-> r.ret,
              ref |-> r.ref, pre |-> heap[Promise(heap, o)]]
  /\ hist' = [hist EXCEPT !.quiet =
                 /\ @
                 /\ \/ <<heap[o].kind, op>> \in QuietOps
                    \/ op = "call" /\ heap[Promise(heap, o)].ready]
  /\ att' = IF op = "then" /\ r.exc = NoExc /\ ~heap[Promise(heap, o)].cancelled
              THEN [att EXCEPT ![Promise(heap, o)] =
                                 Append(@, [cb |-> cb, ref |-> r.ref])]
              ELSE att

\* o(*a, **k)
Call(T, In) ==
  \E o \in T, in \in In :
    /\ (/\ heap[o].kind = "barrier"
        /\ ~BReady(heap, o) /\ ~BCancelled(heap, o)) => heap[o].count < MaxCount
    /\ Commit(Invoke(W0, o, in[1], in[2]), "call", o, in[1], in[2],
              Nil, Nil, "None", TRUE, <<>>)

\* o.then(cb, oe)
Then(T, Cbs, Oes) ==
  \E o \in T, cb \in Cbs, oe \in Oes :
    /\ Len(att[Promise(heap, o)]) < MaxAtt
    /\ IsThenable(heap, cb) => FreeIds(heap) # {} /\ o \notin Reach(heap, {cb})
    /\ Commit(MethThen(W0, o, cb, oe), "then", o, <<>>, NoKw, cb, oe, "None",
              TRUE, <<>>)

\* o.throw(e, propagate=prop)
Throw(T, In) ==
  \E o \in T, in \in In :
    /\ Commit(MethThrow(W0, o, in[1], in[2], "None"), "throw", o, <<>>, NoKw,
              Nil, Nil, in[1], in[2], <<>>)

\* o.throw1(e)
Throw1(T, Es) ==
  \E o \in T, e \in Es :
    /\ Commit(MethThrow1(W0, o, e), "throw1", o, <<>>, NoKw, Nil, Nil, e, TRUE,
              <<>>)

\* o.cancel()
Cancel(T) ==
  \E o \in T :
    /\ Commit(MethCancel(W0, o), "cancel", o, <<>>, NoKw, Nil, Nil, "None", TRUE,
              <<>>)

NoLast ==
  [op |-> "init", target |-> Nil, a |-> <<>>, k |-> NoKw, cb |-> Nil,
   oe |-> Nil, e |-> "None", prop |-> TRUE, ps |-> <<>>, exc |-> NoExc,
   ret |-> "None", ref |-> Nil, pre |-> Blank]

\* The state after construction: built is the sequence of promises a barrier
\* was constructed over, early the promises fulfilled before that; quiet
\* says that every operation so far was one of QuietOps or a call of a ready
\* barrier.
Start(w, built, early) ==
  /\ heap = w.h
  /\ trace = <<>>
  /\ last = NoLast
  /\ att = [o \in DOMAIN w.h |-> <<>>]
  /\ hist = [built |-> built, early |-> early, quiet |-> TRUE]

----------------------------------------------------------------------------
(* One promise and plain callables *)

\* P1 = promise(f1, a1, k1, on_error=oe1)
Init ==
  \E f1 \in {Nil, F, FR}, ak \in {<<<<>>, NoKw>>, <<<<"1">>, K3>>},
     oe1 \in {Nil, H, FR} :
    Start(PromiseInit(World(FnHeap(P1)), P1, f1, ak[1], ak[2], Nil, oe1),
          <<>>, {})

Next ==
  \/ Call({P1}, CallIn)
  \/ Then({P1}, {F, G, FR}, {Nil, H})
  \/ Throw({P1}, ThrowIn)
  \/ Throw1({P1}, ExcSet)
  \/ Cancel({P1})

Spec == Init /\ [][Next]_vars

----------------------------------------------------------------------------
(* Two promises, chained *)

\* P2 = promise(f2, on_error=oe2); P1 = promise(f1, on_error=oe1)
InitChain ==
  \E f1 \in {Nil}, f2 \in {Nil, F}, oe1 \in {Nil, H, P2}, oe2 \in {Nil, H} :
    Start(PromiseInit(PromiseInit(World(FnHeap(P2 + MaxWrap)),
                                  P2, f2, <<>>, NoKw, Nil, oe2),
                      P1, f1, <<>>, NoKw, Nil, oe1),
          <<>>, {})

NextChain ==
  \/ Call({P1, P2}, {<<<<"1">>, NoKw>>})
  \/ Then({P1, P2}, {G, P2}, {Nil, H})
  \/ Throw({P1}, {<<"E1", TRUE>>})
  \/ Cancel({P1})

SpecChain == InitChain /\ [][NextChain]_vars

----------------------------------------------------------------------------
(* A barrier over promises *)

\* There are free slots for the n promises that attaching n promises to a
\* barrier that accepts them creates.
Room(n) ==
  ~BCancelled(heap, B) /\ ~BReady(heap, B) => Cardinality(FreeIds(heap)) >= n

\* B.add(p)
Add(Ps) ==
  \E p \in Ps :
    /\ Room(1)
    /\ heap[B].size < MaxSize
    /\ Commit(BarrierAdd(W0, B, p), "add", B, <<>>, NoKw, Nil, Nil, "None",
              TRUE, <<p>>)

\* B.add_noincr(p)
AddNoincrA(Ps) ==
  \E p \in Ps :
    /\ Room(1)
    /\ Commit(AddNoincr(W0, B, p), "add_noincr", B, <<>>, NoKw, Nil, Nil,
              "None", TRUE, <<p>>)

\* B.extend(ps)
Extend(Pss) ==
  \E ps \in Pss :
    /\ Room(Len(ps))
    /\ heap[B].size + Len(ps) <= MaxSize
    /\ Commit(BarrierExtend(W0, B, ps), "extend", B, <<>>, NoKw, Nil, Nil,
              "None", TRUE, ps)

\* B.extend_noincr(ps)
ExtendNoincrA(Pss) ==
  \E ps \in Pss :
    /\ Room(Len(ps))
    /\ Commit(ExtendNoincr(W0, B, ps), "extend_noincr", B, <<>>, NoKw, Nil,
              Nil, "None", TRUE, ps)

\* B.finalize()
Finalize ==
  /\ Commit(BarrierFinalize(W0, B), "finalize", B, <<>>, NoKw, Nil, Nil,
            "None", TRUE, <<>>)

\* P1 = promise(F); P2 = promise(); optionally P1() before the barrier is
\* built; B = barrier(ps, args, size=size).
InitBarrier ==
  \E build \in {<<<<>>, 0>>, <<<<P1, P2>>, 0>>, <<<<>>, 2>>},
     args \in {<<"9">>}, pre \in BOOLEAN :
    LET w0 == PromiseInit(PromiseInit(World(FnHeap(BP + MaxBWrap)),
                                      P1, F, <<>>, NoKw, Nil, Nil),
                          P2, Nil, <<>>, NoKw, Nil, Nil)
        w1 == IF pre THEN [PromiseCall(w0, P1, <<"1">>, NoKw).w
                             EXCEPT !.tr = <<>>]
              ELSE w0
        w2 == BarrierInit(w1, B, BP, build[1], args, NoKw, Nil, build[2])
    IN Start([w2 EXCEPT !.tr = <<>>], build[1], IF pre THEN {P1} ELSE {})

NextBarrier ==
  \/ Call({P1, P2, B}, {<<<<"1">>, NoKw>>})
  \/ Then({B}, {G}, {Nil})
  \/ Throw({B}, {<<"E1", TRUE>>})
  \/ Cancel({B})
  \/ Add({P1, P2})
  \/ AddNoincrA({P2})
  \/ Extend({<<>>, <<P1, P2>>})
  \/ ExtendNoincrA({<<>>, <<P2>>})
  \/ Finalize

SpecBarrier == InitBarrier /\ [][NextBarrier]_vars

----------------------------------------------------------------------------
(* A barrier built over promises that may already be fulfilled *)

\* P1 = promise(F); P2 = promise(); the promises of early are called;
\* B = barrier([P1, P2], args, callback=cb).
InitEarly ==
  \E early \in SUBSET {P1, P2}, cb \in {Nil, G} :
    LET w0 == PromiseInit(PromiseInit(World(FnHeap(BP + MaxBWrap)),
                                      P1, F, <<>>, NoKw, Nil, Nil),
                          P2, Nil, <<>>, NoKw, Nil, Nil)
        w1 == IF P1 \in early THEN PromiseCall(w0, P1, <<"1">>, NoKw).w ELSE w0
        w2 == IF P2 \in early THEN PromiseCall(w1, P2, <<"1">>, NoKw).w ELSE w1
        w3 == BarrierInit(w2, B, BP, <<P1, P2>>, <<"9">>, NoKw, cb, 0)
    IN Start([w3 EXCEPT !.tr = <<>>], <<P1, P2>>, early)

NextEarly ==
  \/ Call({P1, P2}, {<<<<"1">>, NoKw>>, <<<<"2">>, K3>>})
  \/ Then({B}, {G}, {Nil})
  \/ Finalize

SpecEarly == InitEarly /\ [][NextEarly]_vars

----------------------------------------------------------------------------
(* A callback that cancels the promise it is attached to *)

\* P2 = promise(f2); P1 = promise(f1); X is `lambda *a, **k: P1.cancel()`.
InitReentrant ==
  \E f1 \in {Nil, F}, f2 \in {X, G} :
    Start(PromiseInit(PromiseInit(World(XHeap), P2, f2, <<>>, NoKw, Nil, Nil),
                      P1, f1, <<>>, NoKw, Nil, Nil),
          <<>>, {})

NextReentrant ==
  \/ Call({P1, P2}, {<<<<"1">>, NoKw>>})
  \/ Then({P1}, {X, G, P2}, {Nil})
  \/ Cancel({P1})

SpecReentrant == InitReentrant /\ [][NextReentrant]_vars

----------------------------------------------------------------------------
(* Properties *)

Pending(o) == ~o.ready /\ ~o.failed /\ ~o.cancelled
OkFn(f) == f # Nil /\ heap[f].kind = "fn" /\ heap[f].raises = NoExc

\* The promise the last operation acted on.
Self == Promise(heap, last.target)

\* What a promise forwards to its continuations when called with (a, k): the
\* return value of its callable, or else the bound arguments followed by a,
\* with the keywords of k overriding the bound ones.
Forwarded(o, a, k) ==
  IF o.fun # Nil THEN <<<<heap[o.fun].ret>>, NoKw>>
  ELSE <<o.args \o a,
         [x \in Keys |-> IF k[x] # Absent THEN k[x] ELSE o.kwargs[x]]>>

EventsOf(f) == SelectSeq(trace, LAMBDA e : e.fn = f)

\* C1: calling a pending promise that has plain continuations c1, c2, ...
\* attached by then invokes, within the call, exactly c1, c2, ... in the order
\* of attachment, each once and each with the value the promise forwards (the
\* arguments of the call for a promise without callable and bound arguments).
C1_DispatchInAttachmentOrder ==
  (/\ last.op = "call"
   /\ Pending(last.pre)
   /\ att[Self] # <<>>
   /\ \A i \in 1..Len(att[Self]) : OkFn(att[Self][i].cb)
   /\ last.pre.fun # Nil => OkFn(last.pre.fun))
  => LET v == Forwarded(last.pre, last.a, last.k)
         own == IF last.pre.fun # Nil
                  THEN <<Ev(last.pre.fun, last.pre.args \o last.a,
                            Merge(last.pre.kwargs, last.k))>>
                  ELSE <<>>
     IN /\ last.exc = NoExc
        /\ trace = own \o [i \in 1..Len(att[Self]) |->
                             Ev(att[Self][i].cb, v[1], v[2])]
        /\ (last.pre.fun = Nil /\ last.pre.args = <<>> /\ last.pre.kwargs = NoKw)
             => v = <<last.a, last.k>>

C1_Witness ==
  /\ last.op = "call"
  /\ Pending(last.pre)
  /\ last.pre.fun = Nil /\ last.pre.args = <<>>
  /\ att[Self] = <<[cb |-> F, ref |-> F], [cb |-> G, ref |-> G]>>
  /\ trace = <<Ev(F, <<"2">>, K3), Ev(G, <<"2">>, K3)>>

\* C2: then(c) on a promise that is already fulfilled invokes c, within the
\* then call, once and with exactly the stored value (args and kwargs).
C2_LateAttachReplay ==
  (/\ last.op = "then"
   /\ last.pre.ready /\ ~last.pre.failed /\ ~last.pre.cancelled)
  => /\ trace = <<Ev(last.cb, last.pre.value[1], last.pre.value[2])>>
     /\ OkFn(last.cb) => last.exc = NoExc

C2_Witness ==
  /\ last.op = "then"
  /\ last.pre.ready /\ ~last.pre.failed /\ ~last.pre.cancelled
  /\ last.pre.value = <<<<"1", "2">>, K3>>
  /\ trace = <<Ev(G, <<"1", "2">>, K3)>>

\* C3: on a cancelled promise a call and a throw are no-ops: they do not
\* raise, invoke nothing and leave every object as it was.
C3_CancelAbsorbs ==
  [][(last'.op \in {"call", "throw"} /\ heap[last'.target].cancelled)
       => (heap' = heap /\ trace' = <<>> /\ last'.exc = NoExc)]_vars

C3_Witness ==
  /\ last.op = "call"
  /\ last.pre.cancelled
  /\ last.pre.fun = F
  /\ last.a = <<"2">>

\* C4 (as claimed): throw(E) on a non-cancelled promise with error handler h
\* invokes h once with E, leaves the promise failed with reason E and returns
\* normally.
C4_HandlerAbsorbs ==
  (/\ last.op = "throw"
   /\ ~last.pre.cancelled
   /\ OkFn(last.pre.on_error))
  => /\ EventsOf(last.pre.on_error)
          = <<Ev(last.pre.on_error, last.pre.args \o <<last.e>>, last.pre.kwargs)>>
     /\ heap[Self].failed /\ heap[Self].reason = last.e
     /\ last.exc = NoExc

\* C5 (as claimed): with p1 pending and without error handler, p2 pending
\* with the plain error handler h2, and p2 the only continuation of p1,
\* attached by p1.then(p2), failing p1 with E invokes h2 once with E.
C5_FailurePropagates ==
  (/\ last.op = "throw"
   /\ last.target = P1
   /\ Pending(last.pre)
   /\ last.pre.on_error = Nil
   /\ last.pre.lv = <<>>
   /\ last.pre.sv # Nil
   /\ heap[last.pre.sv].fun = P2
   /\ heap[last.pre.sv].on_error = Nil
   /\ att[P1] = <<[cb |-> P2, ref |-> last.pre.sv]>>
   /\ OkFn(heap[P2].on_error)
   /\ ~heap[P2].cancelled)
  => EventsOf(heap[P2].on_error)
       = <<Ev(heap[P2].on_error, heap[P2].args \o <<last.e>>, heap[P2].kwargs)>>

\* The invocations of the callback chained on the barrier in a trace.
GEvents(tr) == SelectSeq(tr, LAMBDA e : e.fn = G)

\* C6: for a barrier built over the pending promises P1 and P2, as long as
\* the only operations are calls of promises, then on the barrier and calls
\* of the barrier once it is ready: the barrier is ready exactly when both
\* P1 and P2 have been called, and each callback chained on the barrier is
\* invoked once, with the arguments of the barrier: in the step that makes
\* the barrier ready if it was chained before, in the then call if it was
\* chained after, and in no other step.
C6_BarrierBasic ==
  [][(hist'.built = <<P1, P2>> /\ hist'.early = {} /\ hist'.quiet)
       => /\ BReady(heap', B) <=> (heap'[P1].ready /\ heap'[P2].ready)
          /\ GEvents(trace')
               = IF ~BReady(heap, B) /\ BReady(heap', B)
                   THEN [i \in 1..Len(att[BP]) |->
                           Ev(G, heap[B].args, heap[B].kwargs)]
                 ELSE IF last'.op = "then" /\ BReady(heap, B)
                   THEN <<Ev(G, heap[B].args, heap[B].kwargs)>>
                 ELSE <<>>]_vars

C6_Witness ==
  /\ hist.built = <<P1, P2>> /\ hist.early = {} /\ hist.quiet
  /\ last.op = "call" /\ last.target \in {P1, P2}
  /\ ~last.pre.ready
  /\ BReady(heap, B)
  /\ Len(att[BP]) = 2
  /\ trace = <<Ev(G, <<"9">>, NoKw), Ev(G, <<"9">>, NoKw)>>

\* C7 (as claimed): on a barrier that is ready and not cancelled, every add,
\* extend, add_noincr and extend_noincr raises ValueError.
C7_GrowthRejected ==
  (/\ last.op \in {"add", "extend", "add_noincr", "extend_noincr"}
   /\ last.pre.ready
   /\ ~last.pre.cancelled)
  => last.exc = "ValueError"

\* C8: once a barrier is cancelled while not ready, every later operation
\* leaves it cancelled and not ready and invokes no chained callback, and
\* add and throw on it return without raising.
C8_CancelledBarrierNeverFires ==
  [][(BCancelled(heap, B) /\ ~BReady(heap, B))
       => /\ BCancelled(heap', B) /\ ~BReady(heap', B)
          /\ GEvents(trace') = <<>>
          /\ (last'.op \in {"add", "throw"} /\ last'.target = B)
               => last'.exc = NoExc]_vars

C8_Witness ==
  /\ BCancelled(heap, B) /\ ~BReady(heap, B)
  /\ hist.built = <<P1, P2>>
  /\ att[BP] # <<>>
  /\ heap[P1].ready /\ heap[P2].ready
  /\ last.op = "call" /\ last.target = P2 /\ ~last.pre.ready

\* C9: throw(E) with propagation on a promise (or on a barrier, whose throw
\* is that of its internal promise) that is not cancelled and has neither an
\* error handler nor listeners raises E to the caller and leaves the promise
\* failed with reason E.
C9_UnhandledFailureSurfaces ==
  (/\ last.op = "throw"
   /\ last.prop
   /\ ~last.pre.cancelled
   /\ last.pre.on_error = Nil
   /\ last.pre.sv = Nil
   /\ last.pre.lv = <<>>)
  => /\ last.exc = last.e
     /\ heap[Self].failed
     /\ heap[Self].reason = last.e

C9_Witness ==
  /\ last.op = "throw"
  /\ last.target = B
  /\ Pending(last.pre)
  /\ last.pre.on_error = Nil /\ last.pre.sv = Nil /\ last.pre.lv = <<>>
  /\ last.exc = "E1"
  /\ BFailed(heap, B) /\ heap[BP].reason = "E1"

\* C10 (as claimed): cancel never raises, leaves the promise cancelled with
\* the slot, the queue and the error handler released, and cancelling a
\* cancelled promise changes nothing.
C10_CancelTotal ==
  [][last'.op = "cancel"
       => /\ last'.exc = NoExc
          /\ heap'[last'.target].cancelled
          /\ heap'[last'.target].sv = Nil
          /\ heap'[last'.target].lv = <<>>
          /\ heap'[last'.target].on_error = Nil
          /\ heap[last'.target].cancelled => heap' = heap]_vars

\* C11 (as claimed): when the promise P2 was attached to P1 by P1.then(P2)
\* and P1 is still pending, P2 itself is cancelled as soon as P1.cancel()
\* has returned.
C11_CancelPropagates ==
  (/\ last.op = "cancel"
   /\ last.target = P1
   /\ Pending(last.pre)
   /\ att[P1] # <<>>
   /\ \A i \in 1..Len(att[P1]) : att[P1][i].cb = P2)
  => heap[P2].cancelled

\* C12 (as claimed): then on a cancelled promise does not raise, invokes
\* nothing and stores nothing in the slot or the queue, for a plain callable
\* as well as for a promise.
C12_ThenOnCancelled ==
  (/\ last.op = "then"
   /\ last.pre.cancelled)
  => /\ last.exc = NoExc
     /\ trace = <<>>
     /\ heap[Self].sv = last.pre.sv
     /\ heap[Self].lv = last.pre.lv

\* C13 (as claimed): on a promise that is not cancelled, then(b) with a
\* promise-like b returns b itself, and then(f, on_error) with a plain
\* callable f returns a new promise that wraps f and carries on_error; the
\* returned object is what the promise stores.
C13_ThenWrapsPlainCallables ==
  (/\ last.op = "then"
   /\ Pending(last.pre))
  => /\ last.exc = NoExc
     /\ IF IsThenable(heap, last.cb)
          THEN last.ref = last.cb
          ELSE /\ last.ref # last.cb
               /\ heap[last.ref].kind = "promise"
               /\ heap[last.ref].fun = last.cb
               /\ heap[last.ref].on_error = last.oe
     /\ \/ heap[Self].sv = last.ref
        \/ /\ heap[Self].lv # <<>> /\ last.pre.lv # <<>>
           /\ heap[Self].lv[1] = Append(last.pre.lv[1], last.ref)
        \/ /\ heap[Self].lv # <<>>
           /\ heap[Self].lv[1] = <<last.pre.sv, last.ref>>

\* C14 (as claimed): no promise is ever both ready and failed.
C14_ReadyFailedExclusive ==
  \A o \in DOMAIN heap :
    heap[o].kind = "promise" => ~(heap[o].ready /\ heap[o].failed)

\* C15 (as claimed): once a promise is fulfilled its value never changes,
\* once it has failed its reason never changes, and neither is written while
\* the promise is cancelled.
C15_ValueSetOnce ==
  [][\A o \in DOMAIN heap :
       heap[o].kind = "promise"
         => /\ heap[o].ready => heap'[o].value = heap[o].value
            /\ heap[o].failed => heap'[o].reason = heap[o].reason
            /\ heap[o].cancelled => /\ heap'[o].value = heap[o].value
                                    /\ heap'[o].reason = heap[o].reason]_vars

\* C16 (as claimed): then on a promise that is already fulfilled or already
\* failed (and not cancelled) leaves its slot and its queue as they were.
C16_ReplayDoesNotQueue ==
  (/\ last.op = "then"
   /\ last.pre.ready \/ last.pre.failed
   /\ ~last.pre.cancelled)
  => /\ heap[Self].sv = last.pre.sv
     /\ heap[Self].lv = last.pre.lv

\* C17 (as claimed): a call of an already fulfilled promise does not raise
\* and invokes no continuation: at most the bound callable runs again.
C17_RecallDispatchesNothing ==
  (/\ last.op = "call"
   /\ last.pre.ready /\ ~last.pre.failed /\ ~last.pre.cancelled
   /\ last.pre.fun # Nil => OkFn(last.pre.fun))
  => /\ last.exc = NoExc
     /\ trace = IF last.pre.fun # Nil
                  THEN <<Ev(last.pre.fun, last.pre.args \o last.a,
                            Merge(last.pre.kwargs, last.k))>>
                  ELSE <<>>

\* C18: with chained callbacks that return normally, a barrier that is not
\* finalized is not ready, whatever its count and size; finalize on a
\* barrier that is neither finalized nor cancelled makes it ready exactly
\* when count >= size holds at the call, and finalize on a finalized barrier
\* fires nothing; a call (of an upstream promise or of the barrier) on a
\* finalized barrier that is neither ready nor cancelled makes it ready
\* exactly when it brings count up to size.
C18_FinalizeGatesFiring ==
  [][/\ ~heap'[B].finalized => ~BReady(heap', B)
     /\ (last'.op = "finalize" /\ ~heap[B].finalized /\ ~BCancelled(heap, B))
          => /\ BReady(heap', B) <=> heap[B].count >= heap[B].size
             /\ heap'[B].finalized
     /\ (last'.op = "finalize" /\ heap[B].finalized)
          => heap' = heap /\ trace' = <<>>
     /\ (/\ last'.op = "call"
         /\ heap[B].finalized /\ ~BReady(heap, B) /\ ~BCancelled(heap, B))
          => (BReady(heap', B) <=> heap'[B].count >= heap[B].size)]_vars

C18_Witness ==
  /\ last.op = "finalize"
  /\ hist.built = <<>>
  /\ ~last.pre.ready /\ ~last.pre.cancelled
  /\ heap[B].count >= heap[B].size
  /\ heap[B].count > 0
  /\ BReady(heap, B)

\* C19: the internal promise of a barrier is fulfilled at most once and only
\* with the arguments of the barrier: whatever value it holds is the bound
\* args and kwargs of the barrier, and once the barrier is ready no operation
\* writes that value or dispatches to the chained callbacks again (a then on
\* the ready barrier replays the value to the new callback only).
C19_FulfilledAtMostOnce ==
  [][/\ heap'[BP].value # <<>>
          => heap'[BP].value = <<heap'[B].args, heap'[B].kwargs>>
     /\ BReady(heap, B)
          => /\ BReady(heap', B)
             /\ heap'[BP].value = heap[BP].value
             /\ GEvents(trace')
                  = IF last'.op = "then" /\ ~BCancelled(heap, B) /\ ~BFailed(heap, B)
                      THEN <<Ev(G, heap[B].args, heap[B].kwargs)>>
                      ELSE <<>>]_vars

C19_Witness ==
  /\ BReady(heap, B)
  /\ last.pre.ready
  /\ last.op = "finalize"
  /\ heap[B].count >= heap[B].size
  /\ heap[BP].sv = G
  /\ heap[BP].value = <<<<"9">>, NoKw>>

\* C20: when the bound callable of a promise that is not cancelled raises E
\* during a call, the promise becomes failed with reason E, does not become
\* ready and stores no value, and nothing is invoked but the callable and,
\* with E, the plain error handler if one is bound: no continuation runs.
C20_CallableRaises ==
  (/\ last.op = "call"
   /\ ~last.pre.cancelled
   /\ last.pre.fun # Nil
   /\ heap[last.pre.fun].raises # NoExc)
  => /\ heap[Self].failed
     /\ heap[Self].reason = heap[last.pre.fun].raises
     /\ heap[Self].ready = last.pre.ready
     /\ heap[Self].value = last.pre.value
     /\ trace = <<Ev(last.pre.fun, IF last.a # <<>> THEN last.pre.args \o last.a
                                   ELSE last.pre.args,
                     Merge(last.pre.kwargs, last.k))>>
                \o (IF last.pre.on_error # Nil
                      THEN <<Ev(last.pre.on_error,
                                last.pre.args \o <<heap[last.pre.fun].raises>>,
                                last.pre.kwargs)>>
                      ELSE <<>>)

C20_Witness ==
  /\ last.op = "call"
  /\ Pending(last.pre)
  /\ last.pre.fun = FR
  /\ last.pre.on_error = H
  /\ Len(att[P1]) = 2
  /\ heap[P1].failed /\ ~heap[P1].ready
  /\ heap[P1].reason = "EF"
  /\ heap[P1].value = <<>>

\* C21 (as claimed): when P1 is pending without error handler and its only
\* listener is a promise whose plain error handler is invoked with E by
\* P1.throw(E), the throw returns normally.
C21_AbsorbedDownstream ==
  (/\ last.op = "throw"
   /\ last.target = P1
   /\ Pending(last.pre)
   /\ last.pre.on_error = Nil
   /\ last.pre.lv = <<>>
   /\ last.pre.sv # Nil
   /\ IsThenable(heap, last.pre.sv)
   /\ OkFn(heap[last.pre.sv].on_error)
   /\ EventsOf(heap[last.pre.sv].on_error)
        = <<Ev(heap[last.pre.sv].on_error,
               heap[last.pre.sv].args \o <<last.e>>, heap[last.pre.sv].kwargs)>>)
  => last.exc = NoExc

\* The listeners a promise object holds: its slot and its queue.
Listeners(o) ==
  ({o.sv} \cup (IF o.lv = <<>> THEN {} ELSE SeqToSet(o.lv[1]))) \ {Nil}

\* C22 (as claimed): a throw on a promise that is not cancelled and has a
\* plain error handler does not reach the failure path of its listeners: no
\* promise in its slot or queue becomes failed by the throw.
C22_HandledLocally ==
  [][(/\ last'.op = "throw"
      /\ last'.target = P1
      /\ ~heap[P1].cancelled
      /\ OkFn(heap[P1].on_error))
       => \A o \in Listeners(heap[P1]) :
            IsThenable(heap, o) => heap'[o].failed = heap[o].failed]_vars

\* C23 (as claimed): no promise ever has both its slot and its queue
\* populated; a then that returns normally on a pending promise with neither
\* fills the slot, a then on a pending promise with the slot filled empties
\* the slot into a queue that holds the old listener followed by the new
\* one; after a call, a throw or a cancel both are empty.
C23_SlotXorQueue ==
  /\ \A o \in DOMAIN heap :
       heap[o].kind = "promise" => ~(heap[o].sv # Nil /\ heap[o].lv # <<>>)
  /\ (/\ last.op = "then" /\ Pending(last.pre) /\ last.exc = NoExc
      /\ last.pre.sv = Nil /\ last.pre.lv = <<>>)
       => heap[Self].sv = last.ref /\ heap[Self].lv = <<>>
  /\ (/\ last.op = "then" /\ Pending(last.pre) /\ last.exc = NoExc
      /\ last.pre.sv # Nil)
       => heap[Self].sv = Nil /\ heap[Self].lv = <<<<last.pre.sv, last.ref>>>>
  /\ last.op \in {"call", "throw", "cancel"}
       => heap[Self].sv = Nil /\ heap[Self].lv = <<>>

\* The promises among P1 and P2 that are attached to the barrier: one of
\* their listeners invokes B.
Upstream(h) ==
  {q \in {P1, P2} :
     \E w \in Listeners(h[q]) : h[w].kind = "promise" /\ h[w].fun = B}

\* C24 (as claimed): on a barrier that has not been invoked yet, is not ready
\* and not cancelled, and has a registered upstream promise that is still
\* pending, add(p) with an already fulfilled promise p does not make the
\* barrier ready.
C24_AddFulfilled ==
  [][(/\ last'.op = "add"
      /\ ~BReady(heap, B) /\ ~BCancelled(heap, B)
      /\ heap[B].count = 0
      /\ heap[last'.ps[1]].ready
      /\ \E q \in Upstream(heap) : Pending(heap[q]))
       => ~BReady(heap', B)]_vars

\* C26 (as claimed): when add or extend raises ValueError on a ready barrier,
\* size, count, ready and finalized of the barrier are what they were before
\* the call, and no promise of the rejected ones got a new listener.
C26_RejectedGrowthUnchanged ==
  [][(/\ last'.op \in {"add", "extend"}
      /\ last'.exc = "ValueError"
      /\ BReady(heap, B))
       => /\ heap'[B].size = heap[B].size
          /\ heap'[B].count = heap[B].count
          /\ heap'[B].finalized = heap[B].finalized
          /\ BReady(heap', B)
          /\ \A q \in SeqToSet(last'.ps) :
                Listeners(heap'[q]) = Listeners(heap[q])]_vars

\* C25 (as claimed): every operation is synchronous, so whatever a
\* fulfilment triggers has happened when the call returns: whenever all the
\* promises a barrier was built over are fulfilled, whether before or after
\* its construction, the barrier is ready.
C25_BarrierEventuallyReady ==
  (/\ hist.built # <<>>
   /\ \A p \in SeqToSet(hist.built) : heap[p].ready)
  => BReady(heap, B)

\* C27 (as claimed): when a call of the pending promise P1 dispatches to its
\* queue and a queued listener cancels P1 (X is invoked), the call returns
\* without raising, nothing is invoked after X, and P1 is left cancelled with
\* the slot and the queue empty.
C27_CancelDuringDispatch ==
  (/\ last.op = "call" /\ last.target = P1
   /\ Pending(last.pre)
   /\ last.pre.lv # <<>>
   /\ EventsOf(X) # <<>>)
  => /\ last.exc = NoExc
     /\ trace[Len(trace)].fn = X
     /\ heap[P1].cancelled
     /\ heap[P1].sv = Nil /\ heap[P1].lv = <<>>

====
